---- MODULE Spec2Model ----
(***************************************************************************)
(* A model of zaza.openstack.utilities.juju (status queries and remote     *)
(* command helpers) and of the policyd charm test                          *)
(* (zaza.openstack.charm_tests.policyd.tests.PolicydTest).                 *)
(*                                                                         *)
(* Text is modelled as a sequence of one-character strings, so that        *)
(* '/' in name, name.split('/')[0] and int(code) are computed, not assumed.*)
(* A Python value that may be None is [some |-> FALSE] or                  *)
(* [some |-> TRUE, v |-> value].                                           *)
(***************************************************************************)
EXTENDS Integers, Sequences, FiniteSets, TLC

VARIABLES
    status,     \* what model.get_status() returns (the juju status snapshot)
    remote,     \* what the model client answers: the result envelope of a
                \* run, the first unit's ordinal, the relation id
    result,     \* the last helper call: its name, arguments and outcome
    pc,         \* PolicydTest: index of the next step of the running phase
    phase,      \* PolicydTest: "test", "tearDown" or "done"
    verdict,    \* PolicydTest: "running", "passed", "failed" or "error"
    calls,      \* PolicydTest: the zaza calls that have returned, in order
    config,     \* deployed application: value of use-policyd-override
    resource,   \* deployed application: is policyd-override attached
    agent,      \* deployed application: per unit, "idle" or "executing"
    file        \* deployed application: per unit, state of policy.d/file1.yaml

vars == <<status, remote, result, pc, phase, verdict, calls, config, resource, agent, file>>

policydVars == <<pc, phase, verdict, calls, config, resource, agent, file>>

-----------------------------------------------------------------------------
(* Bounds of the model.                                                    *)

\* most units a principal application has in a status snapshot
MaxUnits == 2

\* machines 0 .. NumMachines-1 exist as machine identifiers
NumMachines == 2

\* longest exit-code text ("0", "1", "00", "01", ...)
MaxCodeLen == 2

\* longest list handed to _get_unit_names
MaxNames == 2

\* units of the application under the policyd test
NumUnits == 2

-----------------------------------------------------------------------------
(* Python values.                                                          *)

None == [some |-> FALSE]

Some(x) == [some |-> TRUE, v |-> x]

\* bool(x) for an optional text or list: None and the empty value are falsy
Truthy(x) == x.some /\ Len(x.v) > 0

\* '/' in name
HasSlash(name) == \E i \in 1..Len(name) : name[i] = "/"

\* name.split('/')[0]: the text before the first '/', the whole text if none
SplitFirst(name) ==
    IF HasSlash(name)
    THEN LET i == CHOOSE k \in 1..Len(name) :
                    name[k] = "/" /\ \A j \in 1..(k-1) : name[j] # "/"
         IN SubSeq(name, 1, i - 1)
    ELSE name

DigitChars == <<"0", "1", "2", "3", "4", "5", "6", "7", "8", "9">>

DigitValue(c) == (CHOOSE i \in 1..10 : DigitChars[i] = c) - 1

\* int(text) for a text of decimal digits
RECURSIVE ParseInt(_)
ParseInt(text) ==
    IF Len(text) = 0 THEN 0
    ELSE 10 * ParseInt(SubSeq(text, 1, Len(text) - 1)) + DigitValue(text[Len(text)])

-----------------------------------------------------------------------------
(* The juju status snapshot.                                               *)

P == <<"p">>
S == <<"s">>
G == <<"g">>

AppNames == {P, S, G}

UnitName(app, i) == app \o <<"/", DigitChars[i + 1]>>

MachineIds == 0..(NumMachines - 1)

\* "units" of an application: an insertion-ordered mapping, kept as the
\* sequence of its items (unit name, unit record with "machine")
UnitMaps(app) ==
    UNION { { [i \in 1..n |-> [name |-> UnitName(app, i - 1), machine |-> m[i]]] :
                m \in [1..n -> MachineIds] } : n \in 0..MaxUnits }

\* a principal application: "units" present, no "subordinate-to"
PrincipalRecords(app) ==
    { [units |-> Some(u), subordinate_to |-> None] : u \in UnitMaps(app) }
    \cup { [units |-> None, subordinate_to |-> None] }

\* a subordinate application: no "units", "subordinate-to" a list or absent
SubordinateRecords ==
    { [units |-> None, subordinate_to |-> s] :
        s \in {None, Some(<<>>), Some(<<P>>), Some(<<G>>), Some(<<P, G>>), Some(<<G, P>>)} }

InstanceId(m) == 100 + m

MachineRecord(m) == [instance_id |-> InstanceId(m), series |-> "bionic"]

\* G never has a status record; every machine has one
Snapshots ==
    { [applications |-> [a \in apps |-> IF a = P THEN p ELSE s],
       machines     |-> [m \in MachineIds |-> MachineRecord(m)]] :
        apps \in SUBSET {P, S},
        p \in PrincipalRecords(P),
        s \in SubordinateRecords }

-----------------------------------------------------------------------------
(* Outcomes of a call.                                                     *)

Return(tag, x) == [kind |-> "return", tag |-> tag, val |-> x]

ReturnNone == [kind |-> "return", tag |-> "None"]

Raise(exc) == [kind |-> "raise", exc |-> exc]

-----------------------------------------------------------------------------
(* Status queries.                                                         *)

\* get_full_juju_status(): model.get_status()
get_full_juju_status(st) == st

\* status.applications.get(application)
ApplicationsGet(st, application) ==
    IF application \in DOMAIN st.applications
    THEN Return("application", st.applications[application])
    ELSE ReturnNone

\* units.get(unit) on an insertion-ordered mapping
UnitsGet(units, unit) ==
    IF \E i \in 1..Len(units) : units[i].name = unit
    THEN Return("unit", (CHOOSE i \in 1..Len(units) : units[i].name = unit))
    ELSE ReturnNone

\* get_application_status(application=None, unit=None); application and
\* unit are optional texts.  None.get(...) raises AttributeError.
get_application_status(st, application, unit) ==
    LET full == get_full_juju_status(st)
        app1 == IF Truthy(unit) /\ ~Truthy(application)
                THEN Some(SplitFirst(unit.v))
                ELSE application
        st1  == IF Truthy(app1)
                THEN ApplicationsGet(full, app1.v)
                ELSE Return("full", full)
    IN  IF Truthy(unit)
        THEN IF st1.tag # "application"
             \* None has no get; the full status has no "units" entry
             THEN Raise("AttributeError")
             ELSE IF ~st1.val.units.some
                  THEN Raise("AttributeError")
                  ELSE LET u == UnitsGet(st1.val.units.v, unit.v)
                       IN  IF u.tag = "None" THEN ReturnNone
                           ELSE Return("unit", st1.val.units.v[u.val])
        ELSE st1

\* what a generator function's consumer sees: the values yielded, and how
\* the iteration ended
Gen(yielded, end) == [yielded |-> yielded, end |-> end]

\* "raise StopIteration" in a generator body: the iteration ends as an
\* ordinary exhausted sequence before PEP 479 (Python < 3.7) and as
\* RuntimeError("generator raised StopIteration") from Python 3.7 on
RaiseStopIteration == {"exhausted", "RuntimeError"}

\* a faulty get_machines_for_application: resolves a subordinate through the
\* last entry of subordinate-to instead of the first
get_machines_for_application_LastPrincipal(st, application) ==
    LET s0 == get_application_status(st, Some(application), None)
    IN  IF s0.tag = "None"
        THEN { Gen(<<>>, e) : e \in RaiseStopIteration }
        ELSE IF s0.tag # "application"
        THEN { Gen(<<>>, "AttributeError") }
        ELSE LET s1 == IF ~s0.val.units.some /\ Truthy(s0.val.subordinate_to)
                       THEN get_application_status(
                                st,
                                Some(s0.val.subordinate_to.v[
                                        Len(s0.val.subordinate_to.v)]),
                                None)
                       ELSE s0
             IN  IF s1.tag # "application"
                 THEN { Gen(<<>>, "AttributeError") }
                 ELSE IF ~s1.val.units.some
                 THEN { Gen(<<>>, "AttributeError") }
                 ELSE LET units == s1.val.units.v
                      IN  { Gen([i \in 1..Len(units) |-> units[i].machine],
                                "exhausted") }

\* get_machines_for_application(application): the outcomes the interpreter
\* can produce
get_machines_for_application(st, application) ==
    LET s0 == get_application_status(st, Some(application), None)
    IN  IF s0.tag = "None"
        THEN { Gen(<<>>, e) : e \in RaiseStopIteration }
        ELSE IF s0.tag # "application"
        THEN { Gen(<<>>, "AttributeError") }
        ELSE LET s1 == IF ~s0.val.units.some /\ Truthy(s0.val.subordinate_to)
                       THEN get_application_status(
                                st, Some(s0.val.subordinate_to.v[1]), None)
                       ELSE s0
             IN  IF s1.tag # "application"
                 THEN { Gen(<<>>, "AttributeError") }
                 ELSE IF ~s1.val.units.some
                 THEN { Gen(<<>>, "AttributeError") }
                 ELSE LET units == s1.val.units.v
                      IN  { Gen([i \in 1..Len(units) |-> units[i].machine],
                                "exhausted") }

\* get_machine_status(machine, key): key is "" (no key), "instance-id" or
\* "series"
get_machine_status(st, machine, key) ==
    LET full == get_full_juju_status(st)
    IN  IF machine \notin DOMAIN full.machines
        THEN IF key # "" THEN Raise("AttributeError") ELSE ReturnNone
        ELSE IF key = "instance-id"
             THEN Return("instance-id", full.machines[machine].instance_id)
             ELSE IF key = "series"
             THEN Return("series", full.machines[machine].series)
             ELSE IF key = ""
             THEN Return("machine", full.machines[machine])
             ELSE ReturnNone

\* get_machine_series(machine)
get_machine_series(st, machine) == get_machine_status(st, machine, "series")

\* get_machine_uuids_for_application(application): one instance id per
\* machine the inner generator yields, ending as the inner generator ends
\* or at the first machine lookup that raises
get_machine_uuids_for_application(st, application) ==
    { LET ms  == g.yielded
          bad == { i \in 1..Len(ms) :
                     get_machine_status(st, ms[i], "instance-id").kind = "raise" }
          n   == IF bad = {} THEN Len(ms)
                 ELSE (CHOOSE i \in bad : \A j \in bad : i <= j) - 1
      IN  Gen([i \in 1..n |-> get_machine_status(st, ms[i], "instance-id").val],
              IF bad = {} THEN g.end ELSE "AttributeError")
      : g \in get_machines_for_application(st, application) }

-----------------------------------------------------------------------------
(* The model client's answers.                                             *)

\* exit-code texts of 1 .. MaxCodeLen digits
CodeTexts == UNION { [1..n -> {"0", "1"}] : n \in 1..MaxCodeLen }

\* stdout texts: nothing, or one "key: value" line
Stdouts == {<<>>, <<"a", ":", " ", "x", "\n">>}

Stderrs == {<<>>, <<"e", "r", "r">>}

\* what model.run_on_unit / run_on_leader return: None, an empty mapping,
\* or a mapping with Code, Stdout and Stderr
Envelopes ==
    {[kind |-> "None"], [kind |-> "empty"]}
    \cup { [kind |-> "dict", Code |-> c, Stdout |-> o, Stderr |-> e] :
             c \in CodeTexts, o \in Stdouts, e \in Stderrs }

\* bool(result)
EnvelopeTruthy(e) == e.kind = "dict"

RelationIds == {<<"3">>, <<"1", "2">>}

Remotes ==
    [envelope : Envelopes, first : 0..(MaxUnits - 1), rid : RelationIds]

\* model.get_first_unit_name(name)
get_first_unit_name(rm, name) == UnitName(name, rm.first)

\* model.CommandRunFailed(cmd, result)
CommandRunFailed(cmd, res) ==
    [kind |-> "raise", exc |-> "CommandRunFailed", cmd |-> cmd, result |-> res]

\* yaml.safe_load on the texts of Stdouts: None for the empty document, a
\* mapping for "key: value" lines
RECURSIVE YamlPairs(_)
YamlPairs(text) ==
    IF Len(text) < 5 THEN {}
    ELSE {<<text[1], text[4]>>} \cup YamlPairs(SubSeq(text, 6, Len(text)))

safe_load(text) ==
    IF Len(text) = 0 THEN ReturnNone ELSE Return("mapping", YamlPairs(text))

-----------------------------------------------------------------------------
(* Remote command helpers.  Each gives the outcome and the calls made to   *)
(* the model client, in order.                                             *)

RunOnUnit(unit, cmd, timeout) ==
    [fn |-> "run_on_unit", target |-> unit, cmd |-> cmd, timeout |-> timeout]

RunOnLeader(application, cmd) ==
    [fn |-> "run_on_leader", target |-> application, cmd |-> cmd,
     timeout |-> "None"]

\* a faulty remote_run: an omitted fatal is not defaulted to True
remote_run_NoDefault(rm, unit, remote_cmd, timeout, fatal) ==
    LET res   == rm.envelope
        trace == <<RunOnUnit(unit, remote_cmd, timeout)>>
    IN  IF EnvelopeTruthy(res)
        THEN IF ParseInt(res.Code) = 0
             THEN [out |-> Return("text", res.Stdout), trace |-> trace]
             ELSE IF fatal = "True"
                  THEN [out |-> CommandRunFailed(remote_cmd, res), trace |-> trace]
                  ELSE [out |-> Return("text", res.Stderr), trace |-> trace]
        ELSE [out |-> ReturnNone, trace |-> trace]

\* a faulty remote_run: a failed lenient run returns Stdout
remote_run_StdoutOnFailure(rm, unit, remote_cmd, timeout, fatal) ==
    LET fatal1 == IF fatal = "None" THEN "True" ELSE fatal
        res    == rm.envelope
        trace  == <<RunOnUnit(unit, remote_cmd, timeout)>>
    IN  IF EnvelopeTruthy(res)
        THEN IF ParseInt(res.Code) = 0
             THEN [out |-> Return("text", res.Stdout), trace |-> trace]
             ELSE IF fatal1 = "True"
                  THEN [out |-> CommandRunFailed(remote_cmd, res), trace |-> trace]
                  ELSE [out |-> Return("text", res.Stdout), trace |-> trace]
        ELSE [out |-> ReturnNone, trace |-> trace]

\* a remote_run that treats an empty or absent envelope as a failure, as
\* get_relation_from_unit and leader_get do
remote_run_RaiseOnEmpty(rm, unit, remote_cmd, timeout, fatal) ==
    LET fatal1 == IF fatal = "None" THEN "True" ELSE fatal
        res    == rm.envelope
        trace  == <<RunOnUnit(unit, remote_cmd, timeout)>>
    IN  IF EnvelopeTruthy(res) /\ ParseInt(res.Code) = 0
        THEN [out |-> Return("text", res.Stdout), trace |-> trace]
        ELSE IF fatal1 = "True"
             THEN [out |-> CommandRunFailed(remote_cmd, res), trace |-> trace]
             ELSE IF EnvelopeTruthy(res)
                  THEN [out |-> Return("text", res.Stderr), trace |-> trace]
                  ELSE [out |-> ReturnNone, trace |-> trace]

\* remote_run(unit, remote_cmd, timeout=None, fatal=None); fatal is "None",
\* "True" or "False"
remote_run(rm, unit, remote_cmd, timeout, fatal) ==
    LET fatal1 == IF fatal = "None" THEN "True" ELSE fatal
        res    == rm.envelope
        trace  == <<RunOnUnit(unit, remote_cmd, timeout)>>
    IN  IF EnvelopeTruthy(res)
        THEN IF ParseInt(res.Code) = 0
             THEN [out |-> Return("text", res.Stdout), trace |-> trace]
             ELSE IF fatal1 = "True"
                  THEN [out |-> CommandRunFailed(remote_cmd, res), trace |-> trace]
                  ELSE [out |-> Return("text", res.Stderr), trace |-> trace]
        ELSE [out |-> ReturnNone, trace |-> trace]

\* a faulty _get_unit_names: the test for '/' is inverted
RECURSIVE _get_unit_names_Inverted(_, _)
_get_unit_names_Inverted(rm, names) ==
    IF Len(names) = 0 THEN [out |-> <<>>, trace |-> <<>>]
    ELSE LET name == Head(names)
             rest == _get_unit_names_Inverted(rm, Tail(names))
         IN  IF ~HasSlash(name)
             THEN [out |-> <<name>> \o rest.out, trace |-> rest.trace]
             ELSE [out   |-> <<get_first_unit_name(rm, name)>> \o rest.out,
                   trace |-> <<[fn |-> "get_first_unit_name", target |-> name]>>
                              \o rest.trace]

\* _get_unit_names(names): the loop over names
RECURSIVE _get_unit_names(_, _)
_get_unit_names(rm, names) ==
    IF Len(names) = 0 THEN [out |-> <<>>, trace |-> <<>>]
    ELSE LET name == Head(names)
             rest == _get_unit_names(rm, Tail(names))
         IN  IF HasSlash(name)
             THEN [out |-> <<name>> \o rest.out, trace |-> rest.trace]
             ELSE [out   |-> <<get_first_unit_name(rm, name)>> \o rest.out,
                   trace |-> <<[fn |-> "get_first_unit_name", target |-> name]>>
                              \o rest.trace]

\* 'relation-get --format=yaml -r "{}" - "{}"'.format(rid, remote_unit)
RelationGetCmd(rid, remote_unit) ==
    <<"relation-get --format=yaml -r \"">> \o rid \o <<"\" - \"">>
        \o remote_unit \o <<"\"">>

\* 'leader-get --format=yaml {}'.format(key)
LeaderGetCmd(key) == <<"leader-get --format=yaml ">> \o key

\* get_relation_from_unit(entity, remote_entity, remote_interface_name)
get_relation_from_unit(rm, entity, remote_entity, remote_interface_name) ==
    LET application        == SplitFirst(entity)
        remote_application == SplitFirst(remote_entity)
        rid   == rm.rid
        names == _get_unit_names(rm, <<entity, remote_entity>>)
        unit  == names.out[1]
        remote_unit == names.out[2]
        cmd   == RelationGetCmd(rid, remote_unit)
        res   == rm.envelope
        trace == <<[fn |-> "get_relation_id", target |-> application,
                    remote |-> remote_application,
                    interface |-> remote_interface_name]>>
                 \o names.trace \o <<RunOnUnit(unit, cmd, "None")>>
    IN  IF EnvelopeTruthy(res) /\ ParseInt(res.Code) = 0
        THEN [out |-> safe_load(res.Stdout), cmd |-> cmd, trace |-> trace]
        ELSE [out |-> CommandRunFailed(cmd, res), cmd |-> cmd, trace |-> trace]

\* a faulty leader_get: any non-empty envelope counts as success
leader_get_NoCodeCheck(rm, application, key) ==
    LET cmd   == LeaderGetCmd(key)
        res   == rm.envelope
        trace == <<RunOnLeader(application, cmd)>>
    IN  IF EnvelopeTruthy(res)
        THEN [out |-> safe_load(res.Stdout), cmd |-> cmd, trace |-> trace]
        ELSE [out |-> CommandRunFailed(cmd, res), cmd |-> cmd, trace |-> trace]

\* leader_get(application, key='')
leader_get(rm, application, key) ==
    LET cmd   == LeaderGetCmd(key)
        res   == rm.envelope
        trace == <<RunOnLeader(application, cmd)>>
    IN  IF EnvelopeTruthy(res) /\ ParseInt(res.Code) = 0
        THEN [out |-> safe_load(res.Stdout), cmd |-> cmd, trace |-> trace]
        ELSE [out |-> CommandRunFailed(cmd, res), cmd |-> cmd, trace |-> trace]

-----------------------------------------------------------------------------
(* The status-query calls a caller can make.                               *)

OptApplications == {None, Some(<<>>)} \cup { Some(a) : a \in AppNames }

OptUnits ==
    {None} \cup { Some(UnitName(a, i)) : a \in AppNames, i \in 0..MaxUnits }

NoResult == [op |-> "none"]

PolicydIdle ==
    /\ pc = 0
    /\ phase = "none"
    /\ verdict = "none"
    /\ calls = <<>>
    /\ config = "False"
    /\ resource = FALSE
    /\ agent = [u \in 1..NumUnits |-> "idle"]
    /\ file = [u \in 1..NumUnits |-> "absent"]

NoRemote == [envelope |-> [kind |-> "None"], first |-> 0, rid |-> <<"3">>]

NoStatus == [applications |-> <<>>, machines |-> <<>>]

StatusInit ==
    /\ status \in Snapshots
    /\ remote = NoRemote
    /\ result = NoResult
    /\ PolicydIdle

GetApplicationStatus ==
    \E application \in OptApplications, unit \in OptUnits :
        /\ result' = [op |-> "get_application_status",
                      application |-> application, unit |-> unit,
                      out |-> get_application_status(status, application, unit)]
        /\ UNCHANGED <<status, remote, policydVars>>

GetMachinesForApplication ==
    \E application \in AppNames :
        \E g \in get_machines_for_application(status, application) :
            /\ result' = [op |-> "get_machines_for_application",
                          application |-> application, out |-> g]
            /\ UNCHANGED <<status, remote, policydVars>>

GetMachineUuidsForApplication ==
    \E application \in AppNames :
        \E g \in get_machine_uuids_for_application(status, application) :
            /\ result' = [op |-> "get_machine_uuids_for_application",
                          application |-> application, out |-> g]
            /\ UNCHANGED <<status, remote, policydVars>>

GetMachineSeries ==
    \E machine \in 0..NumMachines :
        /\ result' = [op |-> "get_machine_series", machine |-> machine,
                      out |-> get_machine_series(status, machine)]
        /\ UNCHANGED <<status, remote, policydVars>>

StatusNext ==
    \/ GetApplicationStatus
    \/ GetMachinesForApplication
    \/ GetMachineUuidsForApplication
    \/ GetMachineSeries

StatusSpec == StatusInit /\ [][StatusNext]_vars

-----------------------------------------------------------------------------
(* The remote-command calls a caller can make.                             *)

Entities == {P, S, UnitName(P, 1)}

Commands == {<<"l", "s">>, <<"i", "d">>}

NameLists == UNION { [1..n -> Entities] : n \in 0..MaxNames }

RunInit ==
    /\ status = NoStatus
    /\ remote \in Remotes
    /\ result = NoResult
    /\ PolicydIdle

RemoteRun ==
    \E unit \in {UnitName(P, 0), UnitName(S, 1)}, remote_cmd \in Commands,
       timeout \in {"None", "60"}, fatal \in {"None", "True", "False"} :
        LET r == remote_run(remote, unit, remote_cmd, timeout, fatal)
        IN  /\ result' = [op |-> "remote_run", unit |-> unit, cmd |-> remote_cmd,
                          timeout |-> timeout, fatal |-> fatal,
                          out |-> r.out, trace |-> r.trace]
            /\ UNCHANGED <<status, remote, policydVars>>

GetUnitNames ==
    \E names \in NameLists :
        LET r == _get_unit_names(remote, names)
        IN  /\ result' = [op |-> "_get_unit_names", names |-> names,
                          out |-> r.out, trace |-> r.trace]
            /\ UNCHANGED <<status, remote, policydVars>>

GetRelationFromUnit ==
    \E entity \in Entities, remote_entity \in Entities :
        LET r == get_relation_from_unit(remote, entity, remote_entity, "identity")
        IN  /\ result' = [op |-> "get_relation_from_unit", entity |-> entity,
                          remote_entity |-> remote_entity,
                          out |-> r.out, cmd |-> r.cmd, trace |-> r.trace]
            /\ UNCHANGED <<status, remote, policydVars>>

LeaderGet ==
    \E application \in {P, S}, key \in {<<>>, <<"k">>} :
        LET r == leader_get(remote, application, key)
        IN  /\ result' = [op |-> "leader_get", application |-> application,
                          key |-> key,
                          out |-> r.out, cmd |-> r.cmd, trace |-> r.trace]
            /\ UNCHANGED <<status, remote, policydVars>>

RunNext ==
    \/ RemoteRun
    \/ GetUnitNames
    \/ GetRelationFromUnit
    \/ LeaderGet

RunSpec == RunInit /\ [][RunNext]_vars

-----------------------------------------------------------------------------
(* Properties of the status queries.                                       *)

\* C3: get_application_status returns None, and does not raise, whenever
\* the requested application (given, or the text before '/' of the unit) or
\* the requested unit is absent from the status snapshot, also when the
\* unit's application has no status record or no units field.
C3_AbsentReturnsNone ==
    result.op = "get_application_status" =>
        LET apps == status.applications
            a == IF Truthy(result.application) THEN result.application.v
                 ELSE IF Truthy(result.unit) THEN SplitFirst(result.unit.v)
                 ELSE <<>>
            appAbsent  == Len(a) > 0 /\ a \notin DOMAIN apps
            unitAbsent ==
                /\ Truthy(result.unit)
                /\ \/ a \notin DOMAIN apps
                   \/ ~apps[a].units.some
                   \/ \A i \in 1..Len(apps[a].units.v) :
                        apps[a].units.v[i].name # result.unit.v
        IN  (appAbsent \/ unitAbsent) =>
                result.out.kind = "return" /\ result.out.tag = "None"

\* C4: for a subordinate application s (no units field, subordinate-to
\* [p, ...]) get_machines_for_application(s) yields exactly the machine of
\* each unit of p, in order, and nothing else, and
\* get_machine_uuids_for_application(s) yields the instance-id of each of
\* those machines in the same order; when p has a units field the sequence
\* then ends normally.
C4_SubordinateMachines ==
    (/\ result.op \in {"get_machines_for_application",
                       "get_machine_uuids_for_application"}
     /\ result.application \in DOMAIN status.applications
     /\ ~status.applications[result.application].units.some
     /\ Truthy(status.applications[result.application].subordinate_to)) =>
        LET apps  == status.applications
            p     == apps[result.application].subordinate_to.v[1]
            hasUnits == p \in DOMAIN apps /\ apps[p].units.some
            units == IF hasUnits THEN apps[p].units.v ELSE <<>>
        IN  /\ Len(result.out.yielded) = Len(units)
            /\ \A i \in 1..Len(units) :
                 result.out.yielded[i] =
                    IF result.op = "get_machines_for_application"
                    THEN units[i].machine
                    ELSE status.machines[units[i].machine].instance_id
            /\ hasUnits => result.out.end = "exhausted"

\* a subordinate of a two-unit principal on two machines was resolved to
\* the instance ids of the principal's machines
C4_Witness ==
    /\ result.op = "get_machine_uuids_for_application"
    /\ result.application = S
    /\ S \in DOMAIN status.applications
    /\ status.applications[S].subordinate_to = Some(<<P, G>>)
    /\ P \in DOMAIN status.applications
    /\ status.applications[P].units.some
    /\ Len(status.applications[P].units.v) = 2
    /\ result.out.yielded = <<InstanceId(1), InstanceId(0)>>

\* C5: for an application without a status record the machine sequence
\* fails with a "no such application" condition of its own: it neither ends
\* as an ordinary empty sequence nor fails with an unrelated error, and
\* nothing is yielded first.
C5_NoSuchApplication ==
    (/\ result.op = "get_machines_for_application"
     /\ result.application \notin DOMAIN status.applications) =>
        /\ result.out.yielded = <<>>
        /\ result.out.end \notin {"exhausted", "RuntimeError", "AttributeError"}

-----------------------------------------------------------------------------
(* Properties of the remote command helpers.                               *)

\* C1: remote_run with fatal true or omitted returns exactly Stdout when
\* the exit code is 0, and raises CommandRunFailed carrying the command
\* passed in and the result envelope when it is not.
C1_RemoteRunStrict ==
    (/\ result.op = "remote_run"
     /\ result.fatal \in {"None", "True"}
     /\ remote.envelope.kind = "dict") =>
        LET env  == remote.envelope
            zero == \A i \in 1..Len(env.Code) : env.Code[i] = "0"
        IN  IF zero
            THEN /\ result.out.kind = "return"
                 /\ result.out.tag = "text"
                 /\ result.out.val = env.Stdout
            ELSE /\ result.out.kind = "raise"
                 /\ result.out.exc = "CommandRunFailed"
                 /\ result.out.cmd = result.cmd
                 /\ result.out.result = env

\* remote_run with fatal omitted raised on exit code 01
C1_Witness ==
    /\ result.op = "remote_run"
    /\ result.fatal = "None"
    /\ remote.envelope.kind = "dict"
    /\ remote.envelope.Code = <<"0", "1">>
    /\ result.out.kind = "raise"

\* C2: remote_run with fatal false returns exactly Stderr, and does not
\* raise, when the exit code is not 0.
C2_RemoteRunLenient ==
    (/\ result.op = "remote_run"
     /\ result.fatal = "False"
     /\ remote.envelope.kind = "dict"
     /\ \E i \in 1..Len(remote.envelope.Code) : remote.envelope.Code[i] # "0") =>
        /\ result.out.kind = "return"
        /\ result.out.tag = "text"
        /\ result.out.val = remote.envelope.Stderr

\* remote_run with fatal false returned a Stderr that differs from Stdout
C2_Witness ==
    /\ result.op = "remote_run"
    /\ result.fatal = "False"
    /\ remote.envelope.kind = "dict"
    /\ remote.envelope.Code = <<"1", "0">>
    /\ remote.envelope.Stderr # remote.envelope.Stdout
    /\ result.out.kind = "return"
    /\ result.out.tag = "text"
    /\ result.out.val = <<"e", "r", "r">>

\* C6: get_relation_from_unit and leader_get return the parsed Stdout only
\* when the run gave an envelope with exit code 0; otherwise they raise
\* CommandRunFailed carrying the command that was issued and the result;
\* either way exactly one run is made, and it is the last call.
C6_QueryFailsUnlessZero ==
    result.op \in {"get_relation_from_unit", "leader_get"} =>
        LET env  == remote.envelope
            ok   == /\ env.kind = "dict"
                    /\ \A i \in 1..Len(env.Code) : env.Code[i] = "0"
            runs == { i \in 1..Len(result.trace) :
                        result.trace[i].fn \in {"run_on_unit", "run_on_leader"} }
        IN  /\ runs = {Len(result.trace)}
            /\ IF ok
               THEN /\ result.out.kind = "return"
                    /\ Len(env.Stdout) > 0 =>
                         /\ result.out.tag = "mapping"
                         /\ result.out.val = {<<env.Stdout[1], env.Stdout[4]>>}
               ELSE /\ result.out.kind = "raise"
                    /\ result.out.exc = "CommandRunFailed"
                    /\ result.out.cmd = result.trace[Len(result.trace)].cmd
                    /\ result.out.result = env

\* get_relation_from_unit raised on an envelope with exit code 1 after one run
C6_Witness ==
    /\ result.op = "get_relation_from_unit"
    /\ remote.envelope.kind = "dict"
    /\ remote.envelope.Code = <<"1">>
    /\ result.out.kind = "raise"
    /\ result.out.cmd = RelationGetCmd(remote.rid, UnitName(P, 1))

\* C7: _get_unit_names gives a list of the same length and order, a name
\* with '/' unchanged and without a lookup, a name without '/' replaced by
\* the model client's first unit name for it, one lookup each.
C7_UnitNames ==
    result.op = "_get_unit_names" =>
        LET names  == result.names
            IsApp(n) == \A i \in 1..Len(n) : n[i] # "/"
            looked == SelectSeq(names, IsApp)
        IN  /\ Len(result.out) = Len(names)
            /\ \A i \in 1..Len(names) :
                 result.out[i] = IF IsApp(names[i])
                                 THEN names[i] \o <<"/", DigitChars[remote.first + 1]>>
                                 ELSE names[i]
            /\ Len(result.trace) = Len(looked)
            /\ \A i \in 1..Len(looked) :
                 /\ result.trace[i].fn = "get_first_unit_name"
                 /\ result.trace[i].target = looked[i]

\* a unit name and an application name were resolved with one lookup
C7_Witness ==
    /\ result.op = "_get_unit_names"
    /\ result.names = <<UnitName(P, 1), S>>
    /\ remote.first = 1
    /\ result.out = <<UnitName(P, 1), UnitName(S, 1)>>
    /\ Len(result.trace) = 1

\* C10: on an empty or absent result envelope remote_run returns None and
\* does not raise, whatever fatal is, while get_relation_from_unit and
\* leader_get raise CommandRunFailed.
C10_EmptyEnvelope ==
    remote.envelope.kind \in {"None", "empty"} =>
        /\ result.op = "remote_run" =>
             result.out.kind = "return" /\ result.out.tag = "None"
        /\ result.op \in {"get_relation_from_unit", "leader_get"} =>
             result.out.kind = "raise" /\ result.out.exc = "CommandRunFailed"

\* strict remote_run returned None on an empty envelope
C10_Witness ==
    /\ result.op = "remote_run"
    /\ result.fatal = "True"
    /\ remote.envelope.kind = "empty"
    /\ result.out.kind = "return"
    /\ result.out.tag = "None"

-----------------------------------------------------------------------------
(* PolicydTest: one run of test_policyd_good_yaml followed by tearDown,    *)
(* against a deployed application whose units run charm hooks.  Building   *)
(* the zip archive and logging are local and left out.                     *)

Units == 1..NumUnits

Step(call, arg) == [call |-> call, arg |-> arg]

\* _set_config_and_wait(state): state is a boolean
_set_config_and_wait(state) ==
    LET s == IF state THEN "True" ELSE "False"
    IN  << Step("set_application_config", s),
           Step("block_until_all_units_idle", "") >>

\* a faulty test_policyd_good_yaml: the wait for the file contents is left out
test_policyd_good_yaml_NoFileWait ==
    << Step("attach_resource", "policyd-override"),
       Step("block_until_all_units_idle", "") >>
    \o _set_config_and_wait(TRUE)
    \o << Step("block_until_all_units_idle", ""),
          Step("get_application_status", "") >>

\* the zaza calls of test_policyd_good_yaml, in program order
test_policyd_good_yaml ==
    << Step("attach_resource", "policyd-override"),
       Step("block_until_all_units_idle", "") >>
    \o _set_config_and_wait(TRUE)
    \o << Step("block_until_file_has_contents", "rule1: '!'"),
          Step("block_until_all_units_idle", ""),
          Step("get_application_status", "") >>

\* the zaza calls of tearDown
tearDown == _set_config_and_wait(FALSE)

Program == IF phase = "test" THEN test_policyd_good_yaml ELSE tearDown

\* the running phase is at a step that makes the given call
At(call) ==
    /\ phase \in {"test", "tearDown"}
    /\ pc <= Len(Program)
    /\ Program[pc].call = call

\* the call returned: it is logged with what the units looked like
Returned ==
    /\ calls' = Append(calls, [call |-> Program[pc].call, arg |-> Program[pc].arg,
                               config |-> config, file |-> file])
    /\ pc' = pc + 1
    /\ UNCHANGED <<phase, verdict>>

\* the application under test in the status snapshot
DeployedStatus ==
    [applications |-> [a \in {P} |-> [units |-> Some(<<>>), subordinate_to |-> None]],
     machines     |-> [m \in MachineIds |-> MachineRecord(m)]]

PolicydInit ==
    /\ status = DeployedStatus
    /\ remote = NoRemote
    /\ result = NoResult
    /\ pc = 1
    /\ phase = "test"
    /\ verdict = "running"
    /\ calls = <<>>
    /\ config = "False"
    /\ resource = FALSE
    /\ agent = [u \in Units |-> "idle"]
    /\ file = [u \in Units |-> "absent"]

\* zaza_model.attach_resource: every unit runs a hook for the new resource
AttachResource ==
    /\ At("attach_resource")
    /\ resource' = TRUE
    /\ agent' = [u \in Units |-> "executing"]
    /\ Returned
    /\ UNCHANGED <<status, remote, result, config, file>>

\* zaza_model.set_application_config: a changed value makes every unit run
\* its config-changed hook
SetApplicationConfig ==
    /\ At("set_application_config")
    /\ config' = Program[pc].arg
    /\ agent' = IF config' # config THEN [u \in Units |-> "executing"] ELSE agent
    /\ Returned
    /\ UNCHANGED <<status, remote, result, resource, file>>

\* zaza_model.block_until_all_units_idle returns once every unit is idle
BlockUntilAllUnitsIdle ==
    /\ At("block_until_all_units_idle")
    /\ \A u \in Units : agent[u] = "idle"
    /\ Returned
    /\ UNCHANGED <<status, remote, result, config, resource, agent, file>>

\* zaza_model.block_until_file_has_contents returns once the file on every
\* unit contains the text
BlockUntilFileHasContents ==
    /\ At("block_until_file_has_contents")
    /\ \A u \in Units : file[u] = "rule"
    /\ Returned
    /\ UNCHANGED <<status, remote, result, config, resource, agent, file>>

\* zaza_juju.get_application_status(self.application_name)
TestGetApplicationStatus ==
    /\ At("get_application_status")
    /\ result' = [op |-> "get_application_status", application |-> Some(P),
                  unit |-> None,
                  out |-> get_application_status(status, Some(P), None)]
    /\ result'.out.kind = "return"
    /\ Returned
    /\ UNCHANGED <<status, remote, config, resource, agent, file>>

\* a blocking call whose condition does not hold runs out of time and
\* raises: the test method is abandoned and tearDown runs; in tearDown the
\* run ends in error
WaitTimeout ==
    /\ \/ At("block_until_all_units_idle") /\ \E u \in Units : agent[u] # "idle"
       \/ At("block_until_file_has_contents") /\ \E u \in Units : file[u] # "rule"
    /\ IF phase = "test"
       THEN phase' = "tearDown" /\ pc' = 1 /\ verdict' = "failed"
       ELSE phase' = "done" /\ pc' = pc /\ verdict' = "error"
    /\ UNCHANGED <<status, remote, result, calls, config, resource, agent, file>>

\* test_policyd_good_yaml returns: tearDown runs
TestReturns ==
    /\ phase = "test"
    /\ pc = Len(test_policyd_good_yaml) + 1
    /\ phase' = "tearDown"
    /\ pc' = 1
    /\ UNCHANGED <<status, remote, result, verdict, calls, config, resource, agent, file>>

\* tearDown returns: the test passed unless something was raised
TearDownReturns ==
    /\ phase = "tearDown"
    /\ pc = Len(tearDown) + 1
    /\ phase' = "done"
    /\ verdict' = IF verdict = "running" THEN "passed" ELSE verdict
    /\ UNCHANGED <<status, remote, result, pc, calls, config, resource, agent, file>>

\* a unit of the deployed charm runs its pending hook and goes idle.  The
\* charm is what the test examines, so it may or may not do its job: with
\* the override enabled and the resource attached it may write file1.yaml;
\* with the override disabled it may remove it.
CharmHook ==
    \E u \in Units :
        /\ agent[u] = "executing"
        /\ agent' = [agent EXCEPT ![u] = "idle"]
        /\ \/ config = "True" /\ resource /\ file' = [file EXCEPT ![u] = "rule"]
           \/ config = "False" /\ file' = [file EXCEPT ![u] = "absent"]
           \/ file' = file
        /\ UNCHANGED <<status, remote, result, pc, phase, verdict, calls, config, resource>>

PolicydNext ==
    \/ AttachResource
    \/ SetApplicationConfig
    \/ BlockUntilAllUnitsIdle
    \/ BlockUntilFileHasContents
    \/ TestGetApplicationStatus
    \/ WaitTimeout
    \/ TestReturns
    \/ TearDownReturns
    \/ CharmHook

PolicydSpec == PolicydInit /\ [][PolicydNext]_vars

-----------------------------------------------------------------------------
(* Properties of the policyd test.                                         *)

\* C8: test_policyd_good_yaml attaches the archive as 'policyd-override',
\* waits for idle, sets use-policyd-override to True, waits for idle and
\* only then waits for file1.yaml to contain rule1: '!', no step skipped;
\* a passed run has seen that wait return, with the line in the file on
\* every unit while the flag was True.
C8_OrderedSteps ==
    LET expected == << Step("attach_resource", "policyd-override"),
                       Step("block_until_all_units_idle", ""),
                       Step("set_application_config", "True"),
                       Step("block_until_all_units_idle", ""),
                       Step("block_until_file_has_contents", "rule1: '!'") >>
        n == IF Len(calls) < 5 THEN Len(calls) ELSE 5
    IN  /\ phase = "test" =>
             \A i \in 1..n : /\ calls[i].call = expected[i].call
                             /\ calls[i].arg = expected[i].arg
        /\ verdict = "passed" =>
             /\ Len(calls) >= 5
             /\ \A i \in 1..5 : /\ calls[i].call = expected[i].call
                                /\ calls[i].arg = expected[i].arg
             /\ calls[5].config = "True"
             /\ \A u \in Units : calls[5].file[u] = "rule"

\* the test ran to the end and passed
C8_Witness ==
    /\ phase = "done"
    /\ verdict = "passed"
    /\ Len(calls) = Len(test_policyd_good_yaml) + Len(tearDown)

\* C9: once use-policyd-override is set back to False in tearDown and the
\* units are idle, file1.yaml is no longer present: the run does not end
\* as passed while the file is still present on a unit.
C9_FileGoneWhenPassed ==
    verdict = "passed" => \A u \in Units : file[u] = "absent"

=============================================================================
